---- MODULE Spec2Model ----
(***************************************************************************)
(* esbuild-plugin-global-api: rule resolution, proxy-module synthesis and  *)
(* the resolve/load hooks of simplifyGlobalAPI.                            *)
(*                                                                         *)
(* Text is modelled as a sequence of tokens.  A path is a sequence of      *)
(* string pieces (single characters where the code inspects characters);   *)
(* a script is a sequence of statement records.  JavaScript `undefined` is *)
(* the value Undefined; a rule is always a record with a `type` field, so  *)
(* the literal "noop" is [type |-> "noop"] and a missing rule is           *)
(* [type |-> Undefined].                                                   *)
(***************************************************************************)
EXTENDS Integers, Sequences, FiniteSets, TLC

VARIABLES options, platform, project, phase, setupError, namespaceEntries,
          proxyMapping, reading, last, seen

vars == <<options, platform, project, phase, setupError, namespaceEntries,
          proxyMapping, reading, last, seen>>

\* ------------------------------------------------------------------ bounds
MaxMembers == 2
MaxInFlight == 2
MaxSeen == 1

\* --------------------------------------------------------------- constants
Undefined == "<undefined>"
pluginName == "esbuild-plugin-global-api"
proxyModule == "@esbuild-plugin-global-api/do-not-use-in-your-code"
pureComment == "/* @__PURE__ */"
ScriptExts == { <<".", "j", "s">>, <<".", "t", "s">>, <<".", "j", "s", "x">>,
                <<".", "t", "s", "x">>, <<".", "c", "j", "s">>, <<".", "c", "t", "s">>,
                <<".", "m", "j", "s">>, <<".", "m", "t", "s">> }
\* Names every plain object inherits from Object.prototype (seen by `in`).
ObjectPrototypeKeys == {"toString", "constructor", "hasOwnProperty", "valueOf"}

\* ----------------------------------------------------------------- helpers
Range(s) == { s[i] : i \in 1..Len(s) }

createProxyUrl(namespace) == <<proxyModule, "-", namespace>>

\* `${v}` : string interpolation of a possibly undefined value
Interpolate(v) == IF v = Undefined THEN "undefined" ELSE v

\* String.prototype.includes on a tokenised string
Includes(s, piece) == \E i \in 1..Len(s) : s[i] = piece

\* own-property lookup in an insertion-ordered object (a sequence of entries)
HasOwn(obj, key) == \E i \in 1..Len(obj) : obj[i].name = key
OwnIndex(obj, key) == CHOOSE i \in 1..Len(obj) : obj[i].name = key
\* obj[key] = value : replaces in place, or appends a new key
Assign(obj, entry) ==
  IF HasOwn(obj, entry.name)
  THEN [obj EXCEPT ![OwnIndex(obj, entry.name)] = entry]
  ELSE Append(obj, entry)

RECURSIVE ObjectAssign(_, _)
ObjectAssign(target, source) ==
  IF source = <<>> THEN target
  ELSE ObjectAssign(Assign(target, Head(source)), Tail(source))

\* the `in` operator on an object created by a literal {}
InOperator(obj, key) == HasOwn(obj, key) \/ key \in ObjectPrototypeKeys

\* ------------------------------------------------- Global Definition Table
NoopRule == [type |-> "noop"]
UndefinedRule == [type |-> Undefined]
FuncNode == [type |-> "func"]
Node(t, members) == [type |-> t, members |-> members]
Member(n, k) == [name |-> n, kind |-> k]

globalConstructorWithStatics ==
  << [name |-> "Object",
      rule |-> Node("constructor", << Member("keys", "func"), Member("assign", "func") >>)] >>

globalVars ==
  << [name |-> "console", rule |-> Node("object", << Member("log", "func-bind") >>)],
     [name |-> "JSON",    rule |-> Node("object", << Member("parse", "func"), Member("stringify", "func") >>)],
     [name |-> "Math",    rule |-> Node("object", << Member("PI", "constant"), Member("max", "func") >>)],
     [name |-> "Reflect", rule |-> Node("object", << Member("ownKeys", "func") >>)] >>

isGlobalCtor(name) == HasOwn(globalConstructorWithStatics, name)
isGlobalVar(name) == HasOwn(globalVars, name)
CatalogRule(name) ==
  IF isGlobalCtor(name)
  THEN globalConstructorWithStatics[OwnIndex(globalConstructorWithStatics, name)].rule
  ELSE globalVars[OwnIndex(globalVars, name)].rule

\* ----------------------------------------------------------- Rule Resolver
\* applyTo predicates are named; "default" is defaultApplyTo.
defaultApplyTo(path) == ~ Includes(path, "node_modules")

defaultOptions ==
  [constructors |-> [form |-> "list", items |-> <<"Object">>],
   vars         |-> [form |-> "list", items |-> <<"console", "JSON", "Math", "Reflect">>],
   lib          |-> [form |-> "mapping", items |-> <<>>]]

Omitted == [form |-> "omitted", items |-> <<>>]

\* Object.assign({}, defaultOptions, options) followed by the destructuring
MergedOption(opts, key) == IF opts[key].form = "omitted" THEN defaultOptions[key] ELSE opts[key]

\* defaultProxyNamespaceRule: a rule, or the exception raised by die()
defaultProxyNamespaceRule(name) ==
  IF isGlobalCtor(name) \/ isGlobalVar(name)
  THEN [threw |-> FALSE,
        value |-> [name |-> name, code |-> "", applyTo |-> "default", rule |-> CatalogRule(name)]]
  ELSE [threw |-> TRUE, error |-> <<"Unknown global name ", name>>]

patchProxyNamespaceRuleConfig(name, config) ==
  [name    |-> name,
   applyTo |-> IF config.applyTo = Undefined THEN "default" ELSE config.applyTo,
   code    |-> IF config.code = Undefined THEN "" ELSE config.code,
   rule    |-> config.rule]

\* the reduce over a plain list; applyRule is an object, so `!applyRule` is
\* never true and the warning branch is not taken
RECURSIVE ReduceList(_, _)
ReduceList(acc, names) ==
  IF names = <<>> THEN [threw |-> FALSE, value |-> acc]
  ELSE LET applyRule == defaultProxyNamespaceRule(Head(names))
       IN  IF applyRule.threw THEN applyRule
           ELSE ReduceList(Assign(acc, applyRule.value), Tail(names))

RECURSIVE ReduceMapping(_, _)
ReduceMapping(acc, entries) ==
  IF entries = <<>> THEN [threw |-> FALSE, value |-> acc]
  ELSE ReduceMapping(Assign(acc, patchProxyNamespaceRuleConfig(Head(entries).name, Head(entries))),
                     Tail(entries))

ResolveGroup(config) ==
  IF config.form = "list" THEN ReduceList(<<>>, config.items)
  ELSE ReduceMapping(<<>>, config.items)

\* ------------------------------------------------- Proxy Script Synthesizer
CodePrefix(code) ==
  IF Interpolate(code) = "" THEN <<>> ELSE << [k |-> "code", text |-> Interpolate(code)] >>

varOnly(map, namespace, code) ==
  Assign(map,
    [name |-> namespace,
     url  |-> createProxyUrl(namespace),
     proxyNamespaceImportsScript |->
        << [k |-> "importNamed", names |-> <<namespace>>, url |-> createProxyUrl(namespace)] >>,
     proxyNamespaceExportsScript |->
        CodePrefix(code) \o << [k |-> "exportConst", name |-> namespace, init |-> namespace] >>])

\* a synthesizer that hoists every member, property or not
MemberScriptHoistAll(namespace, member) ==
  << [k |-> "const", name |-> member.name, hint |-> pureComment,
      obj |-> namespace, prop |-> member.name, bind |-> member.kind = "func-bind"] >>

\* one element of evalScripts
MemberScript(namespace, member) ==
  CASE member.kind \in {"constant", "func"} ->
         << [k |-> "const", name |-> member.name, hint |-> pureComment,
             obj |-> namespace, prop |-> member.name, bind |-> FALSE] >>
    [] member.kind = "func-bind" ->
         << [k |-> "const", name |-> member.name, hint |-> pureComment,
             obj |-> namespace, prop |-> member.name, bind |-> TRUE] >>
    [] OTHER -> <<>>

RECURSIVE evalScripts(_, _)
evalScripts(namespace, members) ==
  IF members = <<>> THEN <<>>
  ELSE MemberScript(namespace, Head(members)) \o evalScripts(namespace, Tail(members))

ExportStatement(members) ==
  [k |-> "exportList", names |-> [i \in 1..Len(members) |-> members[i].name]]

\* basic(node): the result of one reduce step, or the TypeError of reading
\* `.type` of undefined
basic(map, namespace, code, node) ==
  CASE node.type = Undefined ->
         [threw |-> TRUE, error |-> <<"TypeError: cannot read properties of undefined">>]
    [] node.type \in {"constructor", "object"} ->
         [threw |-> FALSE,
          value |-> Assign(map,
            [name |-> namespace,
             url  |-> createProxyUrl(namespace),
             proxyNamespaceImportsScript |->
               << [k |-> "importStar", as |-> namespace, url |-> createProxyUrl(namespace)] >>,
             proxyNamespaceExportsScript |->
               CodePrefix(code) \o evalScripts(namespace, node.members)
                 \o << ExportStatement(node.members) >>])]
    [] node.type = "func" -> [threw |-> FALSE, value |-> varOnly(map, namespace, code)]
    [] OTHER -> [threw |-> FALSE, value |-> map]

\* a platform default that forgets "neutral"
EffectivePlatformUnsetOnly(p) == IF p = Undefined \/ p = "" THEN "node" ELSE p

\* const platform = !_platform || _platform === "neutral" ? "node" : _platform
EffectivePlatform(p) == IF p = Undefined \/ p = "" \/ p = "neutral" THEN "node" ELSE p

\* rule.diffs[platform]
DiffLookup(diffs, p) == IF p \in DOMAIN diffs THEN diffs[p] ELSE UndefinedRule

\* the body of the proxyMapping reduce callback
ProxyStep(map, entry, plat) ==
  CASE entry.rule.type = "noop" -> [threw |-> FALSE, value |-> varOnly(map, entry.name, entry.code)]
    [] entry.rule.type = Undefined ->
         [threw |-> TRUE, error |-> <<"TypeError: cannot read properties of undefined">>]
    [] entry.rule.type = "func" -> [threw |-> FALSE, value |-> varOnly(map, entry.name, entry.code)]
    [] entry.rule.type = "platform" ->
         LET detail == DiffLookup(entry.rule.diffs, plat)
         IN  IF detail.type = "noop"
             THEN [threw |-> FALSE, value |-> varOnly(map, entry.name, entry.code)]
             ELSE basic(map, entry.name, entry.code, detail)
    [] OTHER -> basic(map, entry.name, entry.code, entry.rule)

RECURSIVE BuildProxyMapping(_, _, _)
BuildProxyMapping(map, entries, plat) ==
  IF entries = <<>> THEN [threw |-> FALSE, value |-> map]
  ELSE LET step == ProxyStep(map, Head(entries), plat)
       IN  IF step.threw THEN step
           ELSE BuildProxyMapping(step.value, Tail(entries), plat)

\* everything setup() computes before it registers the hooks
SetupResult(opts, plat) ==
  LET constructors == ResolveGroup(MergedOption(opts, "constructors"))
  IN  IF constructors.threw THEN constructors
      ELSE LET vs == ResolveGroup(MergedOption(opts, "vars"))
           IN  IF vs.threw THEN vs
               ELSE LET lib == MergedOption(opts, "lib").items
                        mergedNamespaces ==
                          ObjectAssign(ObjectAssign(constructors.value, vs.value), lib)
                        mapping == BuildProxyMapping(<<>>, mergedNamespaces, EffectivePlatform(plat))
                    IN  IF mapping.threw THEN mapping
                        ELSE [threw |-> FALSE, entries |-> mergedNamespaces, value |-> mapping.value]

\* --------------------------------------------------- File Interception Layer
\* new RegExp(`^${proxyModule}`).test(path)
MatchesPattern(path) == Len(path) >= 1 /\ path[1] = proxyModule

\* path.replace(`${proxyModule}-`, "") : removes the first occurrence only
FirstOccurrence(path) ==
  LET hits == { i \in 1..(Len(path) - 1) : path[i] = proxyModule /\ path[i + 1] = "-" }
  IN  IF hits = {} THEN 0 ELSE CHOOSE i \in hits : \A j \in hits : i <= j

StripProxyPrefix(path) ==
  LET i == FirstOccurrence(path)
  IN  IF i = 0 THEN path ELSE SubSeq(path, 1, i - 1) \o SubSeq(path, i + 2, Len(path))

\* The pieces of a path are chosen so that no two of them concatenate to a
\* namespace name: a stripped path is a property key iff it is one piece.
IsKeyIn(obj, pieces) == Len(pieces) = 1 /\ InOperator(obj, pieces[1])

\* path.parse(path).ext
LastIndexOf(s, piece) ==
  LET hits == { i \in 1..Len(s) : s[i] = piece }
  IN  IF hits = {} THEN 0 ELSE CHOOSE i \in hits : \A j \in hits : i >= j

Base(path) == SubSeq(path, LastIndexOf(path, "/") + 1, Len(path))

Ext(path) ==
  LET base == Base(path)
      dot  == LastIndexOf(base, ".")
  IN  IF dot <= 1 THEN <<>> ELSE SubSeq(base, dot, Len(base))

LoaderFor(ext) ==
  LET isTypeScript == Includes(ext, "t")
      isReact      == Includes(ext, "x")
  IN  IF isTypeScript THEN (IF isReact THEN "tsx" ELSE "ts")
      ELSE (IF isReact THEN "jsx" ELSE "js")

\* applyTo(path) for a named predicate
ApplyPredicate(applyTo, path) ==
  CASE applyTo = "default" -> defaultApplyTo(path)
    [] applyTo = "all"     -> TRUE
    [] applyTo = "none"    -> FALSE
    [] applyTo = "onlyTs"  -> Includes(Ext(path), "t")

\* namespaceEntries.filter(([, {applyTo}]) => applyTo(path)), as namespace names
MatchedNamespaces(entries, path) ==
  SelectSeq(entries, LAMBDA e : ApplyPredicate(e.applyTo, path))

RECURSIVE ImportScripts(_, _)
ImportScripts(map, matched) ==
  IF matched = <<>> THEN <<>>
  ELSE map[OwnIndex(map, Head(matched).name)].proxyNamespaceImportsScript
         \o ImportScripts(map, Tail(matched))

Declined == [tag |-> "decline"]
Thrown(msg) == [tag |-> "throw", error |-> msg]
Loaded(contents, loader) == [tag |-> "load", defined |-> TRUE, contents |-> contents, loader |-> loader]
LoadedUndefined(loader) == [tag |-> "load", defined |-> FALSE, contents |-> <<>>, loader |-> loader]

NoInvocation == [kind |-> "none", path |-> <<>>, content |-> "", result |-> Declined, repeat |-> FALSE]

\* History of completed invocations (not program state): the last one, whether
\* the same invocation had completed before, and the first MaxSeen distinct ones
Complete(kind, path, content, result) ==
  LET rec   == [kind |-> kind, path |-> path, content |-> content, result |-> result]
      again == \E s \in seen : s.kind = kind /\ s.path = path /\ s.content = content
  IN  /\ last' = [kind |-> kind, path |-> path, content |-> content, result |-> result,
                  repeat |-> again]
      /\ seen' = IF Cardinality(seen) < MaxSeen /\ ~ again THEN seen \cup {rec} ELSE seen

\* ------------------------------------------------------------ input spaces
MemberNames == {"a", "b", "c"}
MemberKinds == {"constant", "func", "func-bind", "property"}
AllDistinct(ms) == \A i, j \in 1..Len(ms) : ms[i].name = ms[j].name => i = j
MemberSeqs ==
  UNION { { ms \in [1..n -> [name : MemberNames, kind : MemberKinds]] : AllDistinct(ms) }
          : n \in 0..MaxMembers }
NormalNodes == {FuncNode} \cup { Node(t, ms) : t \in {"object", "constructor"}, ms \in MemberSeqs }
DiffNodes ==
  { NoopRule, FuncNode,
    Node("object", << Member("a", "func") >>),
    Node("object", << Member("a", "func-bind"), Member("b", "property") >>),
    Node("constructor", << Member("b", "constant") >>) }
PlatformRules ==
  { [type |-> "platform", diffs |-> d] :
      d \in UNION { [ks -> DiffNodes] : ks \in SUBSET {"node", "browser"} } }
RuleSpace == {NoopRule, UndefinedRule} \cup NormalNodes \cup PlatformRules

Platforms == {Undefined, "neutral", "node", "browser", "deno"}
Codes == {Undefined, "", "import * as React from 'react';"}
PureFlags == {Undefined, "true", "false"}

Config(name, rule, code, applyTo) ==
  [name |-> name, rule |-> rule, code |-> code, applyTo |-> applyTo]
List(items) == [form |-> "list", items |-> items]
Mapping(items) == [form |-> "mapping", items |-> items]

ConstructorForms ==
  { Omitted, List(<<>>), List(<<"Object">>), List(<<"NotAGlobal", "Object">>), List(<<"Object", "NotAGlobal">>),
    Mapping(<< Config("Object", UndefinedRule, Undefined, Undefined) >>),
    Mapping(<< Config("Object", CatalogRule("Object"), "", "all") >>),
    Mapping(<< Config("Object", NoopRule, Undefined, "onlyTs") >>) }
VarForms ==
  { Omitted, List(<<"console">>), List(<<"console", "notAGlobal">>), List(<<"notAGlobal", "Math">>),
    Mapping(<< Config("console", UndefinedRule, Undefined, Undefined) >>),
    Mapping(<< Config("console", CatalogRule("console"), Undefined, "none") >>),
    Mapping(<< Config("Math", FuncNode, "", Undefined),
               Config("console", [type |-> "platform",
                                  diffs |-> [p \in {"node", "browser"} |->
                                               IF p = "node" THEN CatalogRule("console") ELSE NoopRule]],
                      "", "default") >>) }
LibForms ==
  { Omitted, Mapping(<<>>),
    Mapping(<< Config("console", Node("object", << Member("warn", "func") >>), "", "all") >>),
    Mapping(<< Config("React", Node("object", << Member("createElement", "func-bind") >>),
                      "import * as React from 'react';", Undefined) >>) }

\* one custom namespace under `lib`, with every rule shape
WideLibOptions ==
  { [constructors |-> Omitted, vars |-> Omitted, pure |-> pure,
     lib |-> Mapping(<< Config("React", rule, code, applyTo) >>)] :
      rule \in RuleSpace, code \in Codes, applyTo \in {Undefined, "default"},
      pure \in {"true", "false"} }
\* every form of the three groups
GroupOptions ==
  { [constructors |-> c, vars |-> v, lib |-> l, pure |-> pure] :
      c \in ConstructorForms, v \in VarForms, l \in LibForms, pure \in PureFlags }

\* the builds whose hooks are exercised
RunOptions ==
  { [constructors |-> Omitted, vars |-> Omitted, lib |-> Omitted, pure |-> Undefined],
    [constructors |-> List(<<>>), vars |-> List(<<"console">>), pure |-> "false",
     lib |-> Mapping(<< Config("React", Node("object", << Member("createElement", "func-bind") >>),
                              "import * as React from 'react';", Undefined) >>)],
    [constructors |-> List(<<>>), pure |-> Undefined, lib |-> Omitted,
     vars |-> Mapping(<< Config("console", CatalogRule("console"), Undefined, "none") >>)],
    [constructors |-> Mapping(<< Config("Object", CatalogRule("Object"), Undefined, "onlyTs") >>),
     vars |-> List(<<"console">>), lib |-> Omitted, pure |-> "true"],
    [constructors |-> List(<<"Object">>), lib |-> Omitted, pure |-> Undefined,
     vars |-> Mapping(<< Config("console",
                                [type |-> "platform",
                                 diffs |-> [p \in {"node", "browser"} |->
                                              IF p = "node" THEN CatalogRule("console") ELSE NoopRule]],
                                "", "default") >>)],
    [constructors |-> Omitted, vars |-> List(<<"notAGlobal">>), lib |-> Omitted, pure |-> Undefined] }

FilePaths ==
  { <<"src", "/", "a", ".", "j", "s">>,
    <<"src", "/", "a", ".", "t", "s">>,
    <<"src", "/", "a", ".", "j", "s", "x">>,
    <<"src", "/", "a", ".", "t", "s", "x">>,
    <<"src", "/", "a", ".", "c", "j", "s">>,
    <<"src", "/", "a", ".", "c", "t", "s">>,
    <<"src", "/", "a", ".", "m", "j", "s">>,
    <<"src", "/", "a", ".", "m", "t", "s">>,
    <<"src", "/", "a", ".", "j", "s", "o", "n">>,
    <<"src", "/", "a", ".", "c", "s", "s">>,
    <<"src", "/", ".", "t", "s">>,
    <<"src", ".", "t", "s", "/", "a">>,
    <<"node_modules", "/", "a", ".", "j", "s">>,
    <<"my_", "node_modules", "/", "a", ".", "t", "s", "x">> }

Specifiers ==
  { createProxyUrl("console"), createProxyUrl("Object"), createProxyUrl("React"),
    createProxyUrl("notAGlobal"), createProxyUrl("toString"),
    <<proxyModule>>, <<proxyModule, "/x/", proxyModule, "-", "console">>,
    <<"react">>, <<"./", proxyModule, "-", "console">> }

Contents == {"console.log(1);console.log(2);", ""}

\* A build: the files esbuild loads and the module specifiers it resolves.
Project(files, imports) == [files |-> files, imports |-> imports]
NoProject == Project({}, {})
Projects ==
  { Project({f}, {}) : f \in FilePaths } \cup { Project({}, {s}) : s \in Specifiers }
    \cup { Project({ <<"src", "/", "a", ".", "t", "s", "x">>, <<"src", "/", "a", ".", "j", "s">> },
                   { createProxyUrl("console"), createProxyUrl("toString") }) }
RunPlatforms == {Undefined, "browser"}

\* ------------------------------------------------------------------ actions
InitCommon ==
  /\ phase = "new"
  /\ setupError = <<>>
  /\ namespaceEntries = <<>>
  /\ proxyMapping = <<>>
  /\ reading = <<>>
  /\ last = NoInvocation
  /\ seen = {}

Init ==
  /\ options \in RunOptions
  /\ platform \in RunPlatforms
  /\ project \in Projects
  /\ InitCommon

InitSetup ==
  /\ options \in (WideLibOptions \cup GroupOptions)
  /\ platform \in Platforms
  /\ project = NoProject
  /\ InitCommon

\* setup(builder), up to the registration of the hooks
Setup ==
  /\ phase = "new"
  /\ LET r == SetupResult(options, platform)
     IN  IF r.threw
         THEN /\ phase' = "failed"
              /\ setupError' = r.error
              /\ UNCHANGED <<namespaceEntries, proxyMapping>>
         ELSE /\ phase' = "ready"
              /\ namespaceEntries' = r.entries
              /\ proxyMapping' = r.value
              /\ UNCHANGED setupError
  /\ UNCHANGED <<options, platform, project, reading, last, seen>>

\* builder.onResolve({filter: pattern}) : esbuild calls it for matching paths only
Resolve(path) ==
  /\ phase = "ready"
  /\ path \in project.imports
  /\ Complete("resolve", path, "",
       IF MatchesPattern(path)
       THEN [tag |-> "resolve", path |-> path, namespace |-> proxyModule]
       ELSE Declined)
  /\ UNCHANGED <<options, platform, project, phase, setupError, namespaceEntries, proxyMapping, reading>>

\* builder.onLoad({filter: anyPattern, namespace: "file"}), up to `await readFile`
LoadFile(path) ==
  /\ phase = "ready"
  /\ path \in project.files
  /\ IF \E i \in 1..Len(namespaceEntries) : namespaceEntries[i].applyTo = Undefined
     THEN /\ Complete("file", path, "", Thrown(<<"TypeError: applyTo is not a function">>))
          /\ UNCHANGED reading
     ELSE LET matchedNamespaceEntries == MatchedNamespaces(namespaceEntries, path)
          IN  IF matchedNamespaceEntries = <<>>
              THEN Complete("file", path, "", Declined) /\ UNCHANGED reading
              ELSE IF Ext(path) \in ScriptExts
                   THEN /\ Len(reading) < MaxInFlight
                        /\ reading' = Append(reading, [path |-> path, matched |-> matchedNamespaceEntries])
                        /\ UNCHANGED <<last, seen>>
                   ELSE Complete("file", path, "", Declined) /\ UNCHANGED reading
  /\ UNCHANGED <<options, platform, project, phase, setupError, namespaceEntries, proxyMapping>>

\* the same hook, from the completion of readFile to its return
LoadFileResume(i, content) ==
  /\ phase = "ready"
  /\ i \in 1..Len(reading)
  /\ LET r == reading[i]
     IN  Complete("file", r.path, content,
           IF \E j \in 1..Len(r.matched) : ~ HasOwn(proxyMapping, r.matched[j].name)
           THEN Thrown(<<"TypeError: cannot read properties of undefined">>)
           ELSE Loaded(ImportScripts(proxyMapping, r.matched)
                         \o << [k |-> "newline"], [k |-> "file", text |-> content] >>,
                       LoaderFor(Ext(r.path))))
  /\ reading' = SubSeq(reading, 1, i - 1) \o SubSeq(reading, i + 1, Len(reading))
  /\ UNCHANGED <<options, platform, project, phase, setupError, namespaceEntries, proxyMapping>>

\* a synthetic-module hook that serves each fragment once and then drops it
LoadProxyEvicting(path) ==
  /\ phase = "ready"
  /\ path \in project.imports
  /\ MatchesPattern(path)
  /\ LET variableName == StripProxyPrefix(path)
         own == IsKeyIn(proxyMapping, variableName) /\ HasOwn(proxyMapping, variableName[1])
     IN  /\ Complete("proxy", path, "",
              IF own
              THEN Loaded(proxyMapping[OwnIndex(proxyMapping, variableName[1])].proxyNamespaceExportsScript,
                          "js")
              ELSE Thrown(<<"Unexpected matched path: ", path>>))
         /\ proxyMapping' = IF own
                            THEN SelectSeq(proxyMapping, LAMBDA e : e.name # variableName[1])
                            ELSE proxyMapping
  /\ UNCHANGED <<options, platform, project, phase, setupError, namespaceEntries, reading>>

\* builder.onLoad({filter: pattern, namespace: proxyModule})
LoadProxy(path) ==
  /\ phase = "ready"
  /\ path \in project.imports
  /\ MatchesPattern(path)
  /\ LET variableName == StripProxyPrefix(path)
     IN  Complete("proxy", path, "",
           IF IsKeyIn(proxyMapping, variableName)
           THEN IF HasOwn(proxyMapping, variableName[1])
                THEN Loaded(proxyMapping[OwnIndex(proxyMapping, variableName[1])].proxyNamespaceExportsScript,
                            "js")
                ELSE LoadedUndefined("js")
           ELSE Thrown(<<"Unexpected matched path: ", path>>))
  /\ UNCHANGED <<options, platform, project, phase, setupError, namespaceEntries, proxyMapping, reading>>

Next ==
  \/ Setup
  \/ \E path \in Specifiers : Resolve(path)
  \/ \E path \in FilePaths : LoadFile(path)
  \/ \E i \in 1..MaxInFlight, content \in Contents : LoadFileResume(i, content)
  \/ \E path \in Specifiers : LoadProxy(path)

Spec == Init /\ [][Next]_vars
SpecSetup == InitSetup /\ [][Setup]_vars

\* ------------------------------------------------- reading generated text
\* what a fragment declares, exports and imports, read off its statements
DeclaredNames(script) ==
  { script[i].name : i \in { j \in 1..Len(script) : script[j].k \in {"const", "exportConst"} } }
ExportedNames(script) ==
  UNION { IF script[i].k = "exportList" THEN Range(script[i].names)
          ELSE IF script[i].k = "exportConst" THEN {script[i].name}
          ELSE {} : i \in 1..Len(script) }
ModuleAt(map, url) == { map[i].proxyNamespaceExportsScript : i \in { j \in 1..Len(map) : map[j].url = url } }
ImportedNames(map, script) ==
  UNION { IF script[i].k = "importNamed" THEN Range(script[i].names)
          ELSE IF script[i].k = "importStar"
               THEN UNION { ExportedNames(m) : m \in ModuleAt(map, script[i].url) }
          ELSE {} : i \in 1..Len(script) }
Hoisted(script) == { script[i] : i \in { j \in 1..Len(script) : script[j].k = "const" } }

\* the platform key the specification assigns to a build platform
PlatformKey(p) == IF p \in {Undefined, "neutral"} THEN "node" ELSE p
\* the node a rule stands for on the active platform (UndefinedRule if none)
ResolvedNode(rule) ==
  IF rule.type = "platform"
  THEN (IF PlatformKey(platform) \in DOMAIN rule.diffs THEN rule.diffs[PlatformKey(platform)]
        ELSE UndefinedRule)
  ELSE rule
IsExpansion(node) == node.type \in {"object", "constructor"}
Entry(map, name) == map[OwnIndex(map, name)]

\* the same options with one change applied to every mapping-form entry
MapGroup(group, F(_)) ==
  IF group.form = "mapping"
  THEN [group EXCEPT !.items = [i \in 1..Len(group.items) |-> F(group.items[i])]]
  ELSE group
MapOptions(opts, F(_)) ==
  [opts EXCEPT !.constructors = MapGroup(@, F), !.vars = MapGroup(@, F), !.lib = MapGroup(@, F)]
GroupRules(group) ==
  IF group.form = "mapping" THEN { group.items[i].rule : i \in 1..Len(group.items) } ELSE {}
ConfiguredRules(opts) ==
  GroupRules(opts.constructors) \cup GroupRules(opts.vars) \cup GroupRules(opts.lib)

\* ------------------------------------------------------------------ C1
\* C1 (name alignment): in every ProxyMapping built at setup, each name the
\* export fragment exports is declared in that fragment, and the names the
\* import fragment makes available are exactly the exported names.
NameAlignment ==
  phase = "ready" =>
    \A i \in 1..Len(proxyMapping) :
      /\ ExportedNames(proxyMapping[i].proxyNamespaceExportsScript)
           \subseteq DeclaredNames(proxyMapping[i].proxyNamespaceExportsScript)
      /\ ImportedNames(proxyMapping, proxyMapping[i].proxyNamespaceImportsScript)
           = ExportedNames(proxyMapping[i].proxyNamespaceExportsScript)

\* ------------------------------------------------------------------ C2
\* C2 (property exclusion): for every namespace resolved to an object or
\* constructor node, no member of kind `property` has a hoisted
\* `const <member> = ...` declaration in the export fragment.
PropertyExclusion ==
  phase = "ready" =>
    \A i \in 1..Len(namespaceEntries) :
      LET node == ResolvedNode(namespaceEntries[i].rule)
      IN  IsExpansion(node) =>
            \A m \in Range(node.members) :
              m.kind = "property" =>
                ~ \E d \in Hoisted(Entry(proxyMapping, namespaceEntries[i].name).proxyNamespaceExportsScript) :
                    d.name = m.name

\* a build where a property member follows a hoisted member, with extra code
PropertyExclusionWitness ==
  /\ phase = "ready"
  /\ platform = "browser"
  /\ \E i \in 1..Len(namespaceEntries) :
       /\ namespaceEntries[i].code # ""
       /\ namespaceEntries[i].rule =
            Node("object", << Member("a", "func-bind"), Member("b", "property") >>)
       /\ { d.name : d \in Hoisted(Entry(proxyMapping, namespaceEntries[i].name).proxyNamespaceExportsScript) }
            = {"a"}

\* ------------------------------------------------------------------ C3
KnownOnly(group) ==
  IF group.form = "list"
  THEN [group EXCEPT !.items = SelectSeq(@, LAMBDA n : isGlobalCtor(n) \/ isGlobalVar(n))]
  ELSE group
WithoutUnknownListEntries(opts) ==
  [opts EXCEPT !.constructors = KnownOnly(@), !.vars = KnownOnly(@)]

\* C3 (list-shorthand leniency): when a plain list names a namespace that
\* is not in the catalog, setup does not abort; the entry gets no mapping
\* entry and the rest resolves as if the entry had not been listed.
ListShorthandLeniency ==
  LET rest == SetupResult(WithoutUnknownListEntries(options), platform)
  IN  (phase # "new" /\ WithoutUnknownListEntries(options) # options /\ ~ rest.threw) =>
        /\ phase = "ready"
        /\ namespaceEntries = rest.entries
        /\ proxyMapping = rest.value

\* ------------------------------------------------------------------ C4
WithDefaults(config) ==
  [config EXCEPT
     !.rule = IF @ = UndefinedRule /\ (isGlobalCtor(config.name) \/ isGlobalVar(config.name))
              THEN CatalogRule(config.name) ELSE @,
     !.code = IF @ = Undefined THEN "" ELSE @,
     !.applyTo = IF @ = Undefined THEN "default" ELSE @]

\* C4 (defaulting of partial configuration): a mapping-form entry under
\* constructors, vars or lib that omits rule (for a cataloged name), code or
\* applyTo resolves exactly as the entry with the catalog rule, "" and the
\* default predicate written out; supplied fields are kept.
PartialConfigDefaulting ==
  LET full == SetupResult(MapOptions(options, WithDefaults), platform)
  IN  (phase # "new" /\ ~ full.threw) =>
        /\ phase = "ready"
        /\ namespaceEntries = full.entries
        /\ proxyMapping = full.value

\* ------------------------------------------------------------------ C5
DirectRule(config) == [config EXCEPT !.rule = ResolvedNode(@)]
HasDiffs(rule, keys) == rule.type = "platform" /\ keys \subseteq DOMAIN rule.diffs
VariableOnly(entry) ==
  /\ entry.proxyNamespaceImportsScript =
       << [k |-> "importNamed", names |-> <<entry.name>>, url |-> entry.url] >>
  /\ entry.proxyNamespaceExportsScript[Len(entry.proxyNamespaceExportsScript)] =
       [k |-> "exportConst", name |-> entry.name, init |-> entry.name]
  /\ Hoisted(entry.proxyNamespaceExportsScript) = {}

\* C5 (platform selection): a platform-conditional rule is synthesized from
\* the diff keyed by the build platform, unset and "neutral" counting as
\* "node": the mapping equals the one built with each such rule replaced by
\* that diff, and a "noop" diff gives the variable-only proxy.
PlatformSelection ==
  LET direct == SetupResult(MapOptions(options, DirectRule), platform)
  IN  ( /\ phase # "new"
        /\ \A r \in ConfiguredRules(options) : r.type = "platform" => HasDiffs(r, {PlatformKey(platform)})
        /\ ~ direct.threw ) =>
        /\ phase = "ready"
        /\ proxyMapping = direct.value
        /\ \A i \in 1..Len(namespaceEntries) :
             (namespaceEntries[i].rule.type = "platform"
                /\ ResolvedNode(namespaceEntries[i].rule) = NoopRule)
             => VariableOnly(Entry(proxyMapping, namespaceEntries[i].name))

\* an unset platform, diffs {node: X, browser: "noop"}, X expanded member by member
PlatformSelectionWitness ==
  /\ phase = "ready"
  /\ platform = Undefined
  /\ \E i \in 1..Len(namespaceEntries) :
       /\ HasDiffs(namespaceEntries[i].rule, {"node", "browser"})
       /\ namespaceEntries[i].rule.diffs["browser"] = NoopRule
       /\ IsExpansion(namespaceEntries[i].rule.diffs["node"])
       /\ Hoisted(Entry(proxyMapping, namespaceEntries[i].name).proxyNamespaceExportsScript) # {}

\* ------------------------------------------------------------------ C6
\* C6 (unrecognized platform fallback): when a platform-conditional rule has
\* no diff for the active platform, setup completes with the mapping it
\* builds under "node", and every merged namespace has a mapping entry.
UnrecognizedPlatformFallback ==
  LET node == SetupResult(options, "node")
  IN  ( /\ phase # "new"
        /\ \E r \in ConfiguredRules(options) :
             r.type = "platform" /\ ~ HasDiffs(r, {PlatformKey(platform)})
        /\ ~ node.threw ) =>
        /\ phase = "ready"
        /\ proxyMapping = node.value
        /\ \A i \in 1..Len(namespaceEntries) : HasOwn(proxyMapping, namespaceEntries[i].name)

\* ------------------------------------------------------------------ C7
\* the predicate a namespace applies, an omitted one being the default (C4)
Accepts(entry, path) ==
  ApplyPredicate(IF entry.applyTo = Undefined THEN "default" ELSE entry.applyTo, path)
Gate(path) ==
  /\ \E i \in 1..Len(namespaceEntries) : Accepts(namespaceEntries[i], path)
  /\ Ext(path) \in ScriptExts

\* C7 (load gating): a file load returns a transformed result iff some
\* namespace's applyTo accepts the path and the extension is a script
\* extension, and declines otherwise without reading; .tsx gets loader tsx.
LoadGating ==
  /\ last.kind = "file" =>
       /\ last.result.tag = (IF Gate(last.path) THEN "load" ELSE "decline")
       /\ (last.result.tag = "load" /\ Ext(last.path) = <<".", "t", "s", "x">>)
            => last.result.loader = "tsx"
  /\ \A i \in 1..Len(reading) : Gate(reading[i].path)

\* the same gating, for builds in which every namespace has a predicate
LoadGatingWithPredicates ==
  (\A i \in 1..Len(namespaceEntries) : namespaceEntries[i].applyTo # Undefined) => LoadGating

\* ------------------------------------------------------------------ C8
\* C8 (synthetic module round trip): a synthetic load returns namespace N's
\* export fragment with the js loader iff the path is the private prefix
\* followed by a key N of ProxyMapping, and raises the fatal error otherwise.
SyntheticRoundTrip ==
  last.kind = "proxy" =>
    IF \E i \in 1..Len(proxyMapping) : last.path = createProxyUrl(proxyMapping[i].name)
    THEN \E i \in 1..Len(proxyMapping) :
           /\ last.path = proxyMapping[i].url
           /\ last.result = Loaded(proxyMapping[i].proxyNamespaceExportsScript, "js")
    ELSE last.result.tag = "throw"

\* ------------------------------------------------------------------ C9
PureEnabled == options.pure # "false"

\* C9 (pure-hint gating): with the "pure" option disabled no export fragment
\* carries the pure-hint marker, and with it enabled every hoisted member
\* expression is preceded by the marker.
PureHintGating ==
  phase = "ready" =>
    \A i \in 1..Len(proxyMapping) :
      \A d \in Hoisted(proxyMapping[i].proxyNamespaceExportsScript) :
        (d.hint = pureComment) <=> PureEnabled

\* ------------------------------------------------------------------ C10
SameInvocation(a, b) == a.kind = b.kind /\ a.path = b.path /\ a.content = b.content

\* C10 (setup barrier, stateless handlers): no hook runs before setup has
\* built ProxyMapping with an entry for every merged namespace; afterwards no
\* step changes ProxyMapping or the namespace list; and two invocations with
\* the same path (and file contents) return the same result, whatever ran in
\* between or is suspended on a read.
SetupBarrierAndStatelessness ==
  /\ [](phase # "ready" => (reading = <<>> /\ last = NoInvocation /\ seen = {}))
  /\ [](phase = "ready" => \A i \in 1..Len(namespaceEntries) : HasOwn(proxyMapping, namespaceEntries[i].name))
  /\ [][phase = "ready" => UNCHANGED <<proxyMapping, namespaceEntries, phase>>]_vars
  /\ [](\A s \in seen : SameInvocation(s, last) => s.result = last.result)

\* a synthetic load answered a second time while two file reads are suspended
SetupBarrierWitness ==
  /\ Len(reading) >= 2
  /\ reading[1].path # reading[2].path
  /\ last.kind = "proxy"
  /\ last.result.tag = "load"
  /\ last.repeat

====
